---- MODULE Spec2Model ----
(***************************************************************************)
(* One SOCKS5 client connection of rs-socks5, byte by byte.                *)
(*                                                                         *)
(* The repository holds two drafts of the same per-connection logic:       *)
(*   draft = "connection"  SOCKS5ClientConnection::process                 *)
(*                         (src/src/server/connection.rs)                  *)
(*   draft = "main"        process (src/src/main.rs), the function the     *)
(*                         binary's accept loop spawns                     *)
(* They share read_exact, write_all, the handshake, the request parser and *)
(* the relay loop, and differ in how a failed read or write ends the task  *)
(* and in the success reply.  main.rs has no error type: its outcome is    *)
(* recorded under the name of the SOCKS5ConnectionErr variant whose        *)
(* message it logs.                                                        *)
(*                                                                         *)
(* The peers are the environment: each of the two TCP streams has a peer   *)
(* that may send the next bytes, stop accepting data, close or reset.      *)
(***************************************************************************)
EXTENDS Integers, Sequences, FiniteSets, TLC

\* ------------------------------------------------------------ constants
PROTOCOL_VERSION == 5
NO_AUTHENTICATION_REQUIRED == 0
PROXY_CMD_CONNECT == 1
ADDRESS_TYPE_IPV4 == 1
ADDRESS_TYPE_DOMAIN_NAME == 3
ADDRESS_TYPE_IPV6 == 4
REPLY_SUCCEEDED == 0
REPLY_CONNECTION_REFUSED == 5
RESERVED == 0
BUFFER_SIZE == 4096

\* ------------------------------------------------------------ bounds
\* largest method count a client announces
MaxMethods == 2
\* longest domain name a client sends
MaxName == 2
\* bytes each peer has to send in the relay phase
MaxPayload == 2

\* ------------------------------------------------------------ inputs
Versions == {4, PROTOCOL_VERSION}
MethodBytes == {NO_AUTHENTICATION_REQUIRED, 2}
Commands == {PROXY_CMD_CONNECT, 2}
ReservedBytes == {RESERVED, 1}
AddressTypes == {ADDRESS_TYPE_IPV4, 2, ADDRESS_TYPE_DOMAIN_NAME, ADDRESS_TYPE_IPV6}
IPv4Addrs == {<<192, 168, 1, 1>>, <<127, 0, 0, 1>>}
IPv6Addrs == {<<32, 1, 13, 184, 1, 2, 3, 4, 5, 6, 7, 8, 9, 10, 11, 12>>}
PortBytes == {<<31, 144>>, <<0, 80>>, <<255, 255>>}
\* 'a', and 0xFF, which is never valid UTF-8
NameBytes == {97, 255}
\* the k-th byte each peer sends once the tunnel is up
ClientPayload == [k \in 1..MaxPayload |-> 64 + k]
DestPayload == [k \in 1..MaxPayload |-> 96 + k]

Drafts == {"connection", "main"}

\* ------------------------------------------------------------ helpers
Zeros(n) == [k \in 1..n |-> 0]
Range(f) == {f[k] : k \in DOMAIN f}
Min(a, b) == IF a < b THEN a ELSE b
IsPrefix(p, q) == Len(p) <= Len(q) /\ SubSeq(q, 1, Len(p)) = p

V4(octets) == [atyp |-> ADDRESS_TYPE_IPV4, octets |-> octets]
V6(octets) == [atyp |-> ADDRESS_TYPE_IPV6, octets |-> octets]
NoAddr == [host |-> V4(<<>>), port |-> 0]

\* local (bound) addresses a freshly connected destination socket may have
LocalAddrs ==
    { [host |-> V4(<<10, 0, 0, 7>>), port |-> 40001],
      [host |-> V6(<<254, 128, 0, 0, 0, 0, 0, 0, 0, 0, 0, 0, 0, 0, 0, 9>>), port |-> 513] }

\* what the name resolver may answer: an error, or a list of addresses
ResolveResults ==
    { [ok |-> FALSE, addrs |-> <<>>],
      [ok |-> TRUE, addrs |-> <<>>],
      [ok |-> TRUE, addrs |-> <<V4(<<127, 0, 0, 1>>)>>],
      [ok |-> TRUE, addrs |-> <<V6(<<0, 0, 0, 0, 0, 0, 0, 0, 0, 0, 0, 0, 0, 0, 0, 1>>),
                                V4(<<127, 0, 0, 1>>)>>] }

\* what TcpStream::connect may answer: an error, or a socket with a local address
ConnectResults ==
    {[ok |-> FALSE, local |-> NoAddr]} \cup {[ok |-> TRUE, local |-> l] : l \in LocalAddrs}

VARIABLES
    draft,      \* which draft of the connection logic runs
    pc,         \* the await point the task is suspended at
    result,     \* how the task ended
    at,         \* the await point the task ended at
    buf,        \* read_exact: the buffer being filled
    offset,     \* read_exact: bytes of buf filled so far
    methods,    \* handle_shake: the methods vector
    i,          \* handle_shake: iterations of the method loop still to run
    addr,       \* the Address parse_command returned
    data,       \* write_all: the bytes being written
    woffset,    \* write_all: bytes of data written so far
    recv,       \* bytes read from the client stream by the handshake and the request parser
    hs,         \* how many of them handle_shake read
    short,      \* read_exact has returned Ok with its buffer only partly filled
    connects,   \* TcpStream::connect calls made
    bnd,        \* local address of the destination socket
    cfd,        \* the task's client socket: "open" or "closed"
    dfd,        \* the task's destination socket: "none", "open" or "closed"
    cout,       \* every byte written to the client stream
    dout,       \* every byte written to the destination stream
    cread,      \* payload bytes read from the client in the relay loop
    dread,      \* payload bytes read from the destination in the relay loop
    cpeer,      \* the client peer: "open", "closed" (sent FIN) or "reset"
    dpeer,      \* the destination peer, likewise
    caccept,    \* the client stream currently accepts written data
    daccept,    \* the destination stream currently accepts written data
    other,      \* the task of a second accepted connection, as a record like Cur
    up          \* the runtime, with the accept loop and every task, is running

vars == <<draft, pc, result, at, buf, offset, methods, i, addr, data, woffset, recv,
          hs, short, connects, bnd, cfd, dfd, cout, dout, cread, dread,
          cpeer, dpeer, caccept, daccept, other, up>>

envVars == <<cpeer, dpeer, caccept, daccept>>

taskVars == <<draft, pc, result, at, buf, offset, methods, i, addr, data, woffset, recv,
              hs, short, connects, bnd, cfd, dfd, cout, dout, cread, dread>>

\* the task's own state as one record, and its assignment
Cur ==
    [pc |-> pc, result |-> result, at |-> at, hs |-> hs, buf |-> buf, offset |-> offset,
     methods |-> methods, i |-> i, addr |-> addr, data |-> data,
     woffset |-> woffset, recv |-> recv, short |-> short, connects |-> connects,
     bnd |-> bnd, cfd |-> cfd, dfd |-> dfd, cout |-> cout, dout |-> dout,
     cread |-> cread, dread |-> dread]

\* process called in the accept loop's own task: its panic takes the runtime down
SurvivesUnlessPanic(res) == res # "Panic"

\* tokio::spawn: the runtime catches a panic of the task it runs, so the
\* runtime outlives the task whatever its result
Survives(res) == res \in {"none", "Ok", "InvalidVersion", "UnsupportedAuthMethod",
                          "UnsupportedCommand", "InvalidAddressType",
                          "ConnectionFailed", "Panic"}

\* the task of a connection just accepted, about to read the greeting
Fresh ==
    [pc |-> "greeting", result |-> "none", at |-> "none", hs |-> 0, buf |-> Zeros(2),
     offset |-> 0, methods |-> <<>>, i |-> 0, addr |-> NoAddr, data |-> <<>>,
     woffset |-> 0, recv |-> <<>>, short |-> FALSE, connects |-> 0,
     bnd |-> NoAddr, cfd |-> "open", dfd |-> "none", cout |-> <<>>, dout |-> <<>>,
     cread |-> 0, dread |-> 0]

\* the second connection while the listener has not accepted it
NotAccepted == [Fresh EXCEPT !.pc = "accept", !.cfd = "none"]

Apply(s) ==
    /\ pc' = s.pc /\ result' = s.result /\ at' = s.at /\ hs' = s.hs /\ buf' = s.buf /\ offset' = s.offset
    /\ methods' = s.methods /\ i' = s.i /\ addr' = s.addr /\ data' = s.data
    /\ woffset' = s.woffset /\ recv' = s.recv /\ short' = s.short
    /\ connects' = s.connects /\ bnd' = s.bnd /\ cfd' = s.cfd /\ dfd' = s.dfd
    /\ cout' = s.cout /\ dout' = s.dout /\ cread' = s.cread /\ dread' = s.dread
    /\ draft' = draft
    /\ other' = other
    /\ up' = (up /\ Survives(s.result))

Init ==
    /\ draft \in Drafts
    /\ pc = "greeting" /\ result = "none" /\ at = "none" /\ hs = 0
    /\ buf = Zeros(2) /\ offset = 0
    /\ methods = <<>> /\ i = 0
    /\ addr = NoAddr
    /\ data = <<>> /\ woffset = 0
    /\ recv = <<>> /\ short = FALSE
    /\ connects = 0 /\ bnd = NoAddr
    /\ cfd = "open" /\ dfd = "none"
    /\ cout = <<>> /\ dout = <<>>
    /\ other = NotAccepted /\ up = TRUE
    /\ cread = 0 /\ dread = 0
    /\ cpeer = "open" /\ dpeer = "none"
    /\ caccept = TRUE /\ daccept = TRUE

\* ------------------------------------------------------------ conversions
\* u16::from_le_bytes
U16FromLe(b) == b[1] + b[2] * 256

U16FromBe(b) == b[1] * 256 + b[2]
U16ToBe(p) == <<p \div 256, p % 256>>
\* String::from_utf8_lossy on the name bytes the model sends: an ASCII byte is
\* its own character, a byte that starts no valid sequence becomes U+FFFD
Utf8Lossy(bytes) == [k \in 1..Len(bytes) |-> IF bytes[k] < 128 THEN bytes[k] ELSE 65533]

\* ------------------------------------------------------------ the task
\* the task ends with the destination stream handed to something that outlives it
FinishKeepsDest(s, res) ==
    [s EXCEPT !.pc = "done", !.result = res, !.at = s.pc, !.cfd = "closed"]

\* the task ends: the connection, and the destination stream if there is one,
\* are dropped, which closes their sockets
Finish(s, res) ==
    [s EXCEPT !.pc = "done", !.result = res, !.at = s.pc, !.cfd = "closed",
              !.dfd = IF s.dfd = "open" THEN "closed" ELSE s.dfd]

\* entry of read_exact with a fresh buffer of n zero bytes
StartRead(s, stage, n) == [s EXCEPT !.pc = stage, !.buf = Zeros(n), !.offset = 0]

\* entry of write_all
StartWrite(s, stage, bytes) == [s EXCEPT !.pc = stage, !.data = bytes, !.woffset = 0]

GreetingReply == <<PROTOCOL_VERSION, NO_AUTHENTICATION_REQUIRED>>

\* CheckMethods looking only at the last method received
CheckMethodsLast(s) ==
    IF s.methods = <<>> \/ s.methods[Len(s.methods)] # 0
    THEN Finish(s, "UnsupportedAuthMethod")
    ELSE StartWrite(s, "greeting_reply", GreetingReply)

\* handle_shake after the method loop
CheckMethods(s) ==
    IF 0 \notin Range(s.methods)
    THEN Finish(s, "UnsupportedAuthMethod")
    ELSE StartWrite(s, "greeting_reply", GreetingReply)

\* AfterGreeting without the version check
AfterGreetingAnyVersion(s) ==
    LET num_methods == s.buf[2]
        t == [s EXCEPT !.methods = Zeros(num_methods), !.i = num_methods]
    IN  IF num_methods = 0 THEN CheckMethods(t) ELSE StartRead(t, "method", 1)

\* handle_shake after the 2-byte read
AfterGreeting(s) ==
    IF s.buf[1] # PROTOCOL_VERSION
    THEN Finish(s, "InvalidVersion")
    ELSE LET num_methods == s.buf[2]
             t == [s EXCEPT !.methods = Zeros(num_methods), !.i = num_methods]
         IN  IF num_methods = 0 THEN CheckMethods(t) ELSE StartRead(t, "method", 1)

\* handle_shake, one iteration of the method loop after its 1-byte read
AfterMethod(s) ==
    LET t == [s EXCEPT !.methods = Append(s.methods, s.buf[1]), !.i = s.i - 1]
    IN  IF t.i = 0 THEN CheckMethods(t) ELSE StartRead(t, "method", 1)

\* AfterRequest with the reserved byte required to be 0x00
AfterRequestReserved(s) ==
    IF s.buf[1] # PROTOCOL_VERSION THEN Finish(s, "InvalidVersion")
    ELSE IF s.buf[2] # PROXY_CMD_CONNECT THEN Finish(s, "UnsupportedCommand")
    ELSE IF s.buf[3] # RESERVED THEN Finish(s, "UnsupportedCommand")
    ELSE IF s.buf[4] = ADDRESS_TYPE_IPV4 THEN StartRead(s, "ipv4", 4)
    ELSE IF s.buf[4] = ADDRESS_TYPE_IPV6 THEN StartRead(s, "ipv6", 16)
    ELSE IF s.buf[4] = ADDRESS_TYPE_DOMAIN_NAME THEN StartRead(s, "domain_len", 1)
    ELSE Finish(s, "InvalidAddressType")

\* AfterRequest without the command check
AfterRequestAnyCommand(s) ==
    IF s.buf[1] # PROTOCOL_VERSION THEN Finish(s, "InvalidVersion")
    ELSE IF s.buf[4] = ADDRESS_TYPE_IPV4 THEN StartRead(s, "ipv4", 4)
    ELSE IF s.buf[4] = ADDRESS_TYPE_IPV6 THEN StartRead(s, "ipv6", 16)
    ELSE IF s.buf[4] = ADDRESS_TYPE_DOMAIN_NAME THEN StartRead(s, "domain_len", 1)
    ELSE Finish(s, "InvalidAddressType")

\* parse_command after the 4-byte header read
AfterRequest(s) ==
    IF s.buf[1] # PROTOCOL_VERSION THEN Finish(s, "InvalidVersion")
    ELSE IF s.buf[2] # PROXY_CMD_CONNECT THEN Finish(s, "UnsupportedCommand")
    ELSE IF s.buf[4] = ADDRESS_TYPE_IPV4 THEN StartRead(s, "ipv4", 4)
    ELSE IF s.buf[4] = ADDRESS_TYPE_IPV6 THEN StartRead(s, "ipv6", 16)
    ELSE IF s.buf[4] = ADDRESS_TYPE_DOMAIN_NAME THEN StartRead(s, "domain_len", 1)
    ELSE Finish(s, "InvalidAddressType")

\* parse_command after the address read: the host is known, the port is next
AfterIpv4(s) == StartRead([s EXCEPT !.addr.host = V4(s.buf)], "port", 2)
AfterIpv6(s) == StartRead([s EXCEPT !.addr.host = V6(s.buf)], "port", 2)

\* parse_command after the length byte: a read of 0 bytes returns at once
AfterDomainLen(s) ==
    LET len == s.buf[1]
    IN  IF len = 0 THEN [s EXCEPT !.pc = "resolve", !.buf = <<>>, !.offset = 0]
        ELSE StartRead(s, "domain", len)

AfterDomain(s) == [s EXCEPT !.pc = "resolve"]

\* parse_command: to_socket_addrs().unwrap() and addrs.next().unwrap().ip()
Resolve(s, r) ==
    IF ~r.ok \/ r.addrs = <<>> THEN Finish(s, "Panic")
    ELSE StartRead([s EXCEPT !.addr.host = Head(r.addrs)], "port", 2)

\* parse_command after the port read; process then calls process_connect
AfterPort(s) ==
    [s EXCEPT !.addr.port = U16FromBe(s.buf), !.pc = "connect", !.buf = <<>>, !.offset = 0]

\* what follows a read_exact that returned Ok
AfterRead(s) ==
    CASE s.pc = "greeting" -> AfterGreeting(s)
      [] s.pc = "method" -> AfterMethod(s)
      [] s.pc = "request" -> AfterRequest(s)
      [] s.pc = "ipv4" -> AfterIpv4(s)
      [] s.pc = "ipv6" -> AfterIpv6(s)
      [] s.pc = "domain_len" -> AfterDomainLen(s)
      [] s.pc = "domain" -> AfterDomain(s)
      [] s.pc = "port" -> AfterPort(s)

\* what follows a read_exact that returned Err: the handshake unwraps it in
\* both drafts; the request parser maps it to ConnectionFailed in
\* connection.rs and unwraps it in main.rs
ReadFailed(s, d) ==
    IF s.pc \in {"greeting", "method"} \/ d = "main"
    THEN Finish(s, "Panic")
    ELSE Finish(s, "ConnectionFailed")

\* one pass of read_exact's loop on the client stream, with what try_read gave
ReadExact(s, d, r) ==
    CASE r.kind = "data" ->
            LET n == Len(r.bytes)
                t == [s EXCEPT !.buf = SubSeq(s.buf, 1, s.offset) \o r.bytes
                                       \o SubSeq(s.buf, s.offset + n + 1, Len(s.buf)),
                               !.offset = s.offset + n,
                               !.recv = s.recv \o r.bytes]
            IN  IF t.offset < Len(t.buf) THEN t ELSE AfterRead(t)
      [] r.kind = "eof" -> AfterRead([s EXCEPT !.short = TRUE])
      [] r.kind = "wouldblock" -> s
      [] r.kind = "err" -> ReadFailed(s, d)

\* ------------------------------------------------------------ replies
RefusalReply ==
    <<PROTOCOL_VERSION, REPLY_CONNECTION_REFUSED, RESERVED, ADDRESS_TYPE_IPV4, 0, 0, 0, 0, 0, 0>>

\* process_connect: address type and octets of the destination socket's local address
BndAddr(ip) == <<ip.atyp>> \o ip.octets

\* the reply sent once the destination is connected
SuccessReply(d, local) ==
    IF d = "connection"
    THEN <<PROTOCOL_VERSION, REPLY_SUCCEEDED, RESERVED>> \o BndAddr(local.host)
             \o U16ToBe(local.port)
    ELSE <<5, 0, 0, 1, 0, 0, 0, 0, 0, 0>>

\* Connect going on to the success reply and the relay whatever connect answered
ConnectUnchecked(s, d, r) ==
    LET t == [s EXCEPT !.connects = s.connects + 1, !.addr = NoAddr, !.recv = <<>>, !.hs = 0]
    IN  IF ~r.ok
        THEN StartWrite(t, "success_reply", SuccessReply(d, r.local))
        ELSE StartWrite([t EXCEPT !.dfd = "open", !.bnd = r.local],
                        "success_reply", SuccessReply(d, r.local))

\* process_connect up to its first write: the outcome of TcpStream::connect
Connect(s, d, r) ==
    LET t == [s EXCEPT !.connects = s.connects + 1, !.addr = NoAddr, !.recv = <<>>, !.hs = 0]
    IN  IF ~r.ok
        THEN StartWrite(t, "refuse_reply", RefusalReply)
        ELSE StartWrite([t EXCEPT !.dfd = "open", !.bnd = r.local],
                        "success_reply", SuccessReply(d, r.local))

\* the select! loop waits on both streams
RelayWait(s) == [s EXCEPT !.pc = "relay", !.data = <<>>, !.woffset = 0]

\* handle_shake returned Ok: its locals are gone and parse_command starts
HandleShakeOk(s) ==
    StartRead([s EXCEPT !.methods = <<>>, !.i = 0, !.hs = Len(s.recv), !.data = <<>>,
                        !.woffset = 0], "request", 4)

\* what follows a write_all that returned Ok
AfterWrite(s) ==
    CASE s.pc = "greeting_reply" -> HandleShakeOk(s)
      [] s.pc = "refuse_reply" -> Finish(s, "ConnectionFailed")
      [] s.pc = "success_reply" -> RelayWait(s)
      [] s.pc = "to_dest" -> RelayWait(s)
      [] s.pc = "to_client" -> RelayWait(s)

\* what follows a write_all that returned Err: only connection.rs's greeting
\* reply maps it to ConnectionFailed, every other call site unwraps it
WriteFailed(s, d) ==
    IF s.pc = "greeting_reply" /\ d = "connection"
    THEN Finish(s, "ConnectionFailed")
    ELSE Finish(s, "Panic")

\* the stream a write_all at this point writes to
WriteTarget(stage) == IF stage = "to_dest" THEN "dest" ELSE "client"

\* the bytes try_write took are on the wire of the stream written to
Emit(s, bytes) ==
    IF WriteTarget(s.pc) = "dest"
    THEN [s EXCEPT !.dout = s.dout \o bytes]
    ELSE [s EXCEPT !.cout = s.cout \o bytes]

\* WriteAll returning after its first try_write, however much it took
WriteAllOnce(s, d, r) ==
    CASE r.kind = "data" ->
            AfterWrite([Emit(s, SubSeq(s.data, s.woffset + 1, s.woffset + r.n))
                           EXCEPT !.woffset = s.woffset + r.n])
      [] r.kind = "zero" -> AfterWrite(s)
      [] r.kind = "wouldblock" -> s
      [] r.kind = "err" -> WriteFailed(s, d)

\* WriteAll handing try_write the buffer from its start on every pass
WriteAllFromStart(s, d, r) ==
    CASE r.kind = "data" ->
            LET t == [Emit(s, SubSeq(s.data, 1, r.n)) EXCEPT !.woffset = s.woffset + r.n]
            IN  IF t.woffset < Len(t.data) THEN t ELSE AfterWrite(t)
      [] r.kind = "zero" -> AfterWrite(s)
      [] r.kind = "wouldblock" -> s
      [] r.kind = "err" -> WriteFailed(s, d)

\* one pass of write_all's loop, with what try_write gave: n bytes taken,
\* Ok(0) (which ends the loop with Ok), would-block, or an error
WriteAll(s, d, r) ==
    CASE r.kind = "data" ->
            LET t == [Emit(s, SubSeq(s.data, s.woffset + 1, s.woffset + r.n))
                         EXCEPT !.woffset = s.woffset + r.n]
            IN  IF t.woffset < Len(t.data) THEN t ELSE AfterWrite(t)
      [] r.kind = "zero" -> AfterWrite(s)
      [] r.kind = "wouldblock" -> s
      [] r.kind = "err" -> WriteFailed(s, d)

\* one pass of the select! loop on the readable stream, with what try_read gave
Relay(s, side, r) ==
    CASE r.kind = "eof" -> Finish(s, "Ok")
      [] r.kind = "data" ->
            IF side = "client"
            THEN StartWrite([s EXCEPT !.cread = s.cread + Len(r.bytes)], "to_dest", r.bytes)
            ELSE StartWrite([s EXCEPT !.dread = s.dread + Len(r.bytes)], "to_client", r.bytes)
      [] r.kind = "wouldblock" -> s
      [] r.kind = "err" -> Finish(s, "Ok")

\* ------------------------------------------------------------ actions
ReadStages == {"greeting", "method", "request", "ipv4", "ipv6", "domain_len", "domain", "port"}
WriteStages == {"greeting_reply", "refuse_reply", "success_reply", "to_dest", "to_client"}

\* the byte strings a client may send to fill a buffer of len bytes at a stage
Cands(stage, len) ==
    CASE stage = "greeting" -> {<<v, n>> : v \in Versions, n \in 0..MaxMethods}
      [] stage = "method" -> {<<m>> : m \in MethodBytes}
      [] stage = "request" ->
            {<<v, c, r, a>> : v \in Versions, c \in Commands, r \in ReservedBytes,
                              a \in AddressTypes}
      [] stage = "ipv4" -> IPv4Addrs
      [] stage = "ipv6" -> IPv6Addrs
      [] stage = "domain_len" -> {<<l>> : l \in 0..MaxName}
      [] stage = "domain" -> [1..len -> NameBytes]
      [] stage = "port" -> PortBytes

\* try_read in read_exact returns Ok(n), n > 0: the client has sent more
ClientReadData ==
    /\ pc \in ReadStages /\ cpeer = "open"
    /\ \E c \in Cands(pc, Len(buf)) : \E n \in 1..(Len(buf) - offset) :
          /\ SubSeq(c, 1, offset) = SubSeq(buf, 1, offset)
          /\ Apply(ReadExact(Cur, draft,
                             [kind |-> "data", bytes |-> SubSeq(c, offset + 1, offset + n)]))
    /\ UNCHANGED envVars

\* try_read in read_exact returns Ok(0): the client has closed
ClientReadEof ==
    /\ pc \in ReadStages /\ cpeer = "closed"
    /\ Apply(ReadExact(Cur, draft, [kind |-> "eof"]))
    /\ UNCHANGED envVars

\* readable() or try_read in read_exact returns an error
ClientReadError ==
    /\ pc \in ReadStages /\ cpeer = "reset"
    /\ Apply(ReadExact(Cur, draft, [kind |-> "err"]))
    /\ UNCHANGED envVars

\* try_read in read_exact returns WouldBlock
ClientReadWouldBlock ==
    /\ pc \in ReadStages /\ cpeer = "open"
    /\ Apply(ReadExact(Cur, draft, [kind |-> "wouldblock"]))
    /\ UNCHANGED envVars

\* what the resolver may answer for a name: the empty name never resolves
ResolveResultsFor(domain) ==
    IF domain = <<>> THEN {r \in ResolveResults : ~r.ok} ELSE ResolveResults

\* the resolver answers for the lossily decoded name
ResolveName ==
    /\ pc = "resolve"
    /\ \E r \in ResolveResultsFor(Utf8Lossy(buf)) : Apply(Resolve(Cur, r))
    /\ UNCHANGED envVars

\* TcpStream::connect answers
ConnectDest ==
    /\ pc = "connect"
    /\ \E r \in ConnectResults :
          /\ Apply(Connect(Cur, draft, r))
          /\ dpeer' = IF r.ok THEN "open" ELSE dpeer
    /\ UNCHANGED <<cpeer, caccept, daccept>>

WritePeer == IF WriteTarget(pc) = "dest" THEN dpeer ELSE cpeer
WriteAccept == IF WriteTarget(pc) = "dest" THEN daccept ELSE caccept

\* try_write in write_all returns Ok(n), n > 0.  write_all never calls it with
\* an empty slice, and a TCP socket does not answer Ok(0) to a non-empty one,
\* so no action feeds WriteAll a "zero".
WriteData ==
    /\ pc \in WriteStages /\ WritePeer # "reset" /\ WriteAccept
    /\ \E n \in 1..(Len(data) - woffset) :
          Apply(WriteAll(Cur, draft, [kind |-> "data", n |-> n]))
    /\ UNCHANGED envVars

\* try_write in write_all returns WouldBlock
WriteWouldBlock ==
    /\ pc \in WriteStages /\ WritePeer # "reset" /\ ~WriteAccept
    /\ Apply(WriteAll(Cur, draft, [kind |-> "wouldblock"]))
    /\ UNCHANGED envVars

\* writable() or try_write in write_all returns an error
WriteError ==
    /\ pc \in WriteStages /\ WritePeer = "reset"
    /\ Apply(WriteAll(Cur, draft, [kind |-> "err"]))
    /\ UNCHANGED envVars

\* select! takes the client branch and try_read returns Ok(n), n > 0
RelayClientData ==
    /\ pc = "relay" /\ cpeer = "open" /\ cread < MaxPayload
    /\ \E n \in 1..Min(BUFFER_SIZE, MaxPayload - cread) :
          Apply(Relay(Cur, "client",
                      [kind |-> "data", bytes |-> SubSeq(ClientPayload, cread + 1, cread + n)]))
    /\ UNCHANGED envVars

RelayClientEof ==
    /\ pc = "relay" /\ cpeer = "closed"
    /\ Apply(Relay(Cur, "client", [kind |-> "eof"]))
    /\ UNCHANGED envVars

RelayClientError ==
    /\ pc = "relay" /\ cpeer = "reset"
    /\ Apply(Relay(Cur, "client", [kind |-> "err"]))
    /\ UNCHANGED envVars

RelayClientWouldBlock ==
    /\ pc = "relay" /\ cpeer = "open"
    /\ Apply(Relay(Cur, "client", [kind |-> "wouldblock"]))
    /\ UNCHANGED envVars

\* select! takes the destination branch
RelayDestData ==
    /\ pc = "relay" /\ dpeer = "open" /\ dread < MaxPayload
    /\ \E n \in 1..Min(BUFFER_SIZE, MaxPayload - dread) :
          Apply(Relay(Cur, "dest",
                      [kind |-> "data", bytes |-> SubSeq(DestPayload, dread + 1, dread + n)]))
    /\ UNCHANGED envVars

RelayDestEof ==
    /\ pc = "relay" /\ dpeer = "closed"
    /\ Apply(Relay(Cur, "dest", [kind |-> "eof"]))
    /\ UNCHANGED envVars

RelayDestError ==
    /\ pc = "relay" /\ dpeer = "reset"
    /\ Apply(Relay(Cur, "dest", [kind |-> "err"]))
    /\ UNCHANGED envVars

RelayDestWouldBlock ==
    /\ pc = "relay" /\ dpeer = "open"
    /\ Apply(Relay(Cur, "dest", [kind |-> "wouldblock"]))
    /\ UNCHANGED envVars

\* ------------------------------------------------------------ the peers
srvVars == <<taskVars, other, up>>

ClientClose ==
    /\ pc # "done" /\ cpeer = "open"
    /\ cpeer' = "closed"
    /\ UNCHANGED <<srvVars, dpeer, caccept, daccept>>

ClientReset ==
    /\ pc # "done" /\ cpeer \in {"open", "closed"}
    /\ cpeer' = "reset"
    /\ UNCHANGED <<srvVars, dpeer, caccept, daccept>>

DestClose ==
    /\ pc # "done" /\ dpeer = "open"
    /\ dpeer' = "closed"
    /\ UNCHANGED <<srvVars, cpeer, caccept, daccept>>

DestReset ==
    /\ pc # "done" /\ dpeer \in {"open", "closed"}
    /\ dpeer' = "reset"
    /\ UNCHANGED <<srvVars, cpeer, caccept, daccept>>

\* the client's receive window fills up or drains
ClientAccept ==
    /\ pc # "done"
    /\ caccept' = ~caccept
    /\ UNCHANGED <<srvVars, cpeer, dpeer, daccept>>

DestAccept ==
    /\ pc # "done" /\ dfd = "open"
    /\ daccept' = ~daccept
    /\ UNCHANGED <<srvVars, cpeer, dpeer, caccept>>

TaskStep ==
    \/ ClientReadData \/ ClientReadEof \/ ClientReadError \/ ClientReadWouldBlock
    \/ ResolveName \/ ConnectDest
    \/ WriteData \/ WriteWouldBlock \/ WriteError
    \/ RelayClientData \/ RelayClientEof \/ RelayClientError \/ RelayClientWouldBlock
    \/ RelayDestData \/ RelayDestEof \/ RelayDestError \/ RelayDestWouldBlock

PeerStep ==
    \/ ClientClose \/ ClientReset \/ DestClose \/ DestReset
    \/ ClientAccept \/ DestAccept

Next == TaskStep \/ PeerStep

Spec == Init /\ [][Next]_vars

\* the task's steps are taken whenever they stay possible; the peers owe nothing
FairSpec == Spec /\ SF_vars(TaskStep)

\* ------------------------------------------------------------ a second connection
\* what the second connection's client sends before the payload: a greeting
\* offering method 0, then CONNECT 127.0.0.1:80
OtherScript == <<5, 1, 0>> \o <<5, 1, 0, 1>> \o <<127, 0, 0, 1>> \o <<0, 80>>

\* listener.accept() returns a socket and the loop spawns its task
Accept ==
    /\ up /\ other = NotAccepted
    /\ other' = Fresh
    /\ UNCHANGED <<taskVars, envVars, up>>

\* the second task's next pass, with a client and a destination that follow
\* the protocol: read_exact gets the bytes it waits for, connect succeeds,
\* write_all is taken whole, and the client sends the payload and closes
OtherNext(o) ==
    CASE o.pc \in ReadStages ->
            ReadExact(o, draft, [kind |-> "data",
                                 bytes |-> SubSeq(OtherScript, Len(o.recv) + 1,
                                                  Len(o.recv) + Len(o.buf))])
      [] o.pc = "connect" ->
            Connect(o, draft, [ok |-> TRUE,
                               local |-> [host |-> V4(<<10, 0, 0, 7>>), port |-> 40001]])
      [] o.pc \in WriteStages ->
            WriteAll(o, draft, [kind |-> "data", n |-> Len(o.data) - o.woffset])
      [] o.pc = "relay" ->
            IF o.cread < MaxPayload
            THEN Relay(o, "client", [kind |-> "data",
                                     bytes |-> SubSeq(ClientPayload, o.cread + 1, MaxPayload)])
            ELSE Relay(o, "client", [kind |-> "eof"])

\* the second task runs until it waits in the relay loop or has ended: from
\* its start through handle_shake, parse_command, the connect and its reply,
\* then one pass of the relay loop at a time
RECURSIVE OtherRun(_)
OtherRun(o) ==
    LET n == OtherNext(o)
    IN  IF n.pc \in {"relay", "done"} THEN n ELSE OtherRun(n)

OtherStep ==
    /\ up /\ other.pc \notin {"accept", "done"}
    /\ other' = OtherRun(other)
    /\ UNCHANGED <<taskVars, envVars, up>>

MultiNext == Next \/ Accept \/ OtherStep

MultiSpec == Init /\ [][MultiNext]_vars

\* ------------------------------------------------------------ claims
HandshakeStages == {"greeting", "method", "greeting_reply"}
ParseStages == {"request", "ipv4", "ipv6", "domain_len", "domain", "resolve", "port"}
RelayStages == {"relay", "to_dest", "to_client"}

\* the stage the task is at, or ended at
Stage == IF pc = "done" THEN at ELSE pc
InHandshake == Stage \in HandshakeStages
InParse == Stage \in ParseStages

\* the greeting bytes the client has sent
Greeting == IF InHandshake THEN recv ELSE SubSeq(recv, 1, hs)
\* the client has sent a whole greeting [ver, N, m_1..m_N]
GreetingComplete == Len(Greeting) >= 2 /\ Len(Greeting) = 2 + Greeting[2]
\* the method bytes the client has sent
Offered == {Greeting[k] : k \in 3..Len(Greeting)}
\* the request bytes the client has sent
Request == SubSeq(recv, hs + 1, Len(recv))

\* C1: a complete greeting [0x05, N, m_1..m_N] without method 0x00 (N = 0
\* included) ends the task with UnsupportedAuthMethod, nothing written to the
\* client, no request parsed and no connect attempted.
AuthRejection ==
    (InHandshake /\ GreetingComplete /\ recv[1] = 5 /\ 0 \notin Offered)
        => /\ pc = "done" /\ result = "UnsupportedAuthMethod"
           /\ cout = <<>> /\ connects = 0

\* C2: for a greeting [0x05, N, m_1..m_N] that offers method 0x00 the task
\* reads the N method bytes and no more, then writes [0x05, 0x00] and nothing
\* else, once, and only then starts on the request.
AuthAcceptance ==
    /\ pc = "greeting_reply"
          => /\ Len(recv) <= 2 + recv[2]
             /\ ~short => Len(recv) = 2 + recv[2]
             /\ data = <<5, 0>> /\ cout = SubSeq(<<5, 0>>, 1, woffset)
    /\ (InHandshake /\ GreetingComplete /\ recv[1] = 5 /\ 0 \in Offered)
          => \/ pc = "greeting_reply"
             \/ /\ pc = "done" /\ at = "greeting_reply" /\ cpeer = "reset"
                /\ result \in {"ConnectionFailed", "Panic"}
    /\ pc \in ParseStages \cup {"connect"}
          => /\ cout = <<5, 0>>
             /\ hs <= 2 + recv[2]
             /\ ~short => GreetingComplete

\* a greeting offering no-auth among two methods was answered and the request is awaited
AuthAcceptanceWitness ==
    /\ pc = "request" /\ offset = 0 /\ recv = <<5, 2, 2, 0>> /\ cout = <<5, 0>>

\* C3: a greeting whose first byte is not 0x05 ends the task with
\* InvalidVersion; no method byte is read, nothing is written to the client
\* and no connect is attempted.
VersionGate ==
    (Len(recv) >= 1 /\ recv[1] # 5)
        => /\ pc \in {"greeting", "done"}
           /\ Len(recv) <= 2 /\ methods = <<>>
           /\ cout = <<>> /\ connects = 0 /\ dfd = "none"
           /\ (pc = "done" /\ Len(recv) = 2) => result = "InvalidVersion"

\* a version-4 greeting was rejected
VersionGateWitness ==
    /\ pc = "done" /\ recv = <<4, 1>> /\ result = "InvalidVersion"

\* C4: the relay phase has a connected destination stream; a task that ends
\* in the handshake, in the request parser or on a failed connect never had
\* one, relayed nothing, and wrote after the greeting reply at most the
\* refusal reply, and that only when the connect failed.
ConnectionInvariant ==
    /\ pc \in RelayStages => dfd = "open" /\ connects = 1
    /\ (pc = "done" /\ at \in HandshakeStages \cup ParseStages \cup {"refuse_reply"})
          => /\ dfd = "none" /\ dout = <<>> /\ cread = 0 /\ dread = 0
             /\ at \in HandshakeStages \cup ParseStages => IsPrefix(cout, <<5, 0>>)
             /\ at = "refuse_reply"
                   => /\ connects = 1
                      /\ IsPrefix(cout, <<5, 0, 5, 5, 0, 1, 0, 0, 0, 0, 0, 0>>)
                      /\ IsPrefix(<<5, 0>>, cout)

\* a failed connect ended the task after the refusal reply
ConnectionInvariantWitness ==
    /\ pc = "done" /\ at = "refuse_reply" /\ result = "ConnectionFailed"
    /\ Len(cout) = 12 /\ dfd = "none"

\* C5: when the client closes before a requested read is complete, the task
\* ends with ConnectionFailed and never connects.
ExactLengthRead ==
    short => pc = "done" /\ result = "ConnectionFailed" /\ connects = 0

\* C6: once the destination is connected the task writes to the client
\* [0x05, 0x00, 0x00, ATYP, BND.ADDR, BND.PORT] for the destination socket's
\* local address and port (big-endian), once, before it relays anything.
SuccessReplyShape ==
    LET expected == <<5, 0, 0, bnd.host.atyp>> \o bnd.host.octets
                        \o <<bnd.port \div 256, bnd.port % 256>>
    IN  /\ pc = "success_reply"
              => /\ cout = <<5, 0>> \o SubSeq(expected, 1, woffset)
                 /\ dout = <<>> /\ cread = 0 /\ dread = 0
        /\ pc \in RelayStages => IsPrefix(<<5, 0>> \o expected, cout)

\* C7: a failed connect makes the task write to the client exactly
\* [0x05,0x05,0x00,0x01,0,0,0,0,0,0] (cut short only if the client stream
\* fails) and end with ConnectionFailed; connect is called at most once and
\* nothing is relayed.
RefusalReplyShape ==
    /\ connects <= 1
    /\ pc = "refuse_reply"
          => /\ cout = <<5, 0>> \o SubSeq(<<5, 5, 0, 1, 0, 0, 0, 0, 0, 0>>, 1, woffset)
             /\ connects = 1 /\ dfd = "none"
    /\ (pc = "done" /\ at = "refuse_reply")
          => /\ dout = <<>> /\ cread = 0 /\ dread = 0 /\ dfd = "none" /\ connects = 1
             /\ result = "ConnectionFailed"
             /\ cout = <<5, 0, 5, 5, 0, 1, 0, 0, 0, 0, 0, 0>> \/ cpeer = "reset"

\* C8: in the relay phase, once the client has closed the task eventually
\* closes the destination socket, and once the destination has closed the
\* task eventually closes the client socket, also from a state where a chunk
\* is being forwarded to a peer that is not accepting data.
RelayTerminationSymmetry ==
    /\ (pc \in RelayStages /\ cpeer = "closed") ~> (dfd = "closed")
    /\ (pc \in RelayStages /\ dpeer = "closed") ~> (cfd = "closed")

\* the bytes written to the client after the greeting reply and the connect reply
ToClient == SubSeq(cout, 2 + Len(SuccessReply(draft, bnd)) + 1, Len(cout))

\* C9: what the task has written to the destination is a prefix of what the
\* client sent after its request, what it has written to the client after the
\* connect reply is a prefix of what the destination sent, and a chunk read is
\* written whole before the loop waits again.
RelayVerbatim ==
    /\ Stage \notin RelayStages => dout = <<>> /\ cread = 0 /\ dread = 0
    /\ Stage \in RelayStages
          => /\ IsPrefix(dout, ClientPayload) /\ IsPrefix(ToClient, DestPayload)
             /\ Len(dout) <= cread /\ Len(ToClient) <= dread
             /\ Stage = "relay" => Len(dout) = cread /\ Len(ToClient) = dread
    /\ pc = "to_dest"
          => /\ data = SubSeq(ClientPayload, cread - Len(data) + 1, cread)
             /\ Len(dout) = cread - Len(data) + woffset /\ Len(ToClient) = dread
    /\ pc = "to_client"
          => /\ data = SubSeq(DestPayload, dread - Len(data) + 1, dread)
             /\ Len(ToClient) = dread - Len(data) + woffset /\ Len(dout) = cread

\* both payloads went through whole and the loop waits again
RelayVerbatimWitness ==
    /\ pc = "relay" /\ dout = ClientPayload /\ ToClient = DestPayload
    /\ cread = MaxPayload /\ dread = MaxPayload

\* C10: after the greeting reply a request header with a version other than
\* 0x05 ends the task with InvalidVersion, else one with a command other than
\* 0x01 with UnsupportedCommand, else one with an address type outside
\* {0x01, 0x03, 0x04} with InvalidAddressType; the client has then been sent
\* [0x05, 0x00] and nothing more, and no connect was attempted.
SilentRequestRejection ==
    (InParse /\ Len(Request) >= 4)
        => LET ver == Request[1]
               cmd == Request[2]
               atyp == Request[4]
               rejected == ver # 5 \/ cmd # 1 \/ atyp \notin {1, 3, 4}
           IN  /\ ver # 5 => result = "InvalidVersion"
               /\ (ver = 5 /\ cmd # 1) => result = "UnsupportedCommand"
               /\ (ver = 5 /\ cmd = 1 /\ atyp \notin {1, 3, 4})
                     => result = "InvalidAddressType"
               /\ rejected
                     => /\ pc = "done" /\ at = "request" /\ Len(Request) = 4
                        /\ cout = <<5, 0>> /\ connects = 0 /\ dfd = "none"

\* a BIND request was dropped without a reply
SilentRequestRejectionWitness ==
    /\ pc = "done" /\ at = "request" /\ Request = <<5, 2, 0, 1>>
    /\ result = "UnsupportedCommand" /\ cout = <<5, 0>>

\* the place of a stage in the order handshake, parse, connect, reply, relay
StageRank(stage) ==
    CASE stage \in HandshakeStages -> 1
      [] stage \in ParseStages -> 2
      [] stage = "connect" -> 3
      [] stage \in {"refuse_reply", "success_reply"} -> 4
      [] stage \in RelayStages -> 5
      [] OTHER -> 6

\* the length of a whole request [ver, cmd, rsv, atyp, addr, port] that starts like r
RequestLen(r) ==
    IF Len(r) < 4 THEN 4
    ELSE IF r[4] = 1 THEN 10
    ELSE IF r[4] = 4 THEN 22
    ELSE IF r[4] = 3 THEN (IF Len(r) < 5 THEN 7 ELSE 7 + r[5])
    ELSE 4

\* C11: the stages of a connection follow one another as handshake, request
\* parse, connect, reply, relay, never backwards and none skipped; no request
\* byte is read before the greeting reply is out, connect is not called
\* before a whole request (header, address, port) was read, no connect reply
\* is written before connect has answered, and nothing is relayed before the
\* success reply is out.
StrictStageOrder ==
    /\ [][pc' = "done" \/ StageRank(pc') \in {StageRank(pc), StageRank(pc) + 1}]_vars
    /\ [](pc \in HandshakeStages
             => Len(recv) <= 2 + (IF Len(recv) >= 2 THEN recv[2] ELSE 0))
    /\ [](pc \in ParseStages => cout = <<5, 0>> /\ connects = 0)
    /\ [](pc = "connect" => connects = 0 /\ Len(Request) = RequestLen(Request))
    /\ [](pc \in {"refuse_reply", "success_reply"} => connects = 1)
    /\ [](pc \in RelayStages
             => IsPrefix(<<5, 0>> \o SuccessReply(draft, bnd), cout))
    /\ [](pc \notin RelayStages \cup {"done"} => dout = <<>> /\ cread = 0 /\ dread = 0)

\* the results with which a task ends on an error
ErrorResults == {"InvalidVersion", "UnsupportedAuthMethod", "UnsupportedCommand",
                 "InvalidAddressType", "ConnectionFailed", "Panic"}

\* C12: with two connections served at once, whatever happens to the first one
\* (protocol violation, I/O failure, connect or resolve failure, a panic of
\* its task) changes only its own state: the second connection's state changes
\* only by its own steps, which leave the first one alone; the second one can
\* always take its next step and ends with its tunnel served in full; and the
\* listener stays able to accept.
ErrorIsolation ==
    /\ [][other' # other => UNCHANGED <<taskVars, envVars>> /\ (Accept \/ OtherStep)]_vars
    /\ [][up' = up]_vars
    /\ [](up /\ (other = NotAccepted => ENABLED Accept))
    /\ [](other.pc \notin {"accept", "done"} => up /\ OtherRun(other) # other)
    /\ [](other.pc = "done"
             => /\ other.result = "Ok"
                /\ other.cout = <<5, 0>> \o SuccessReply(draft, other.bnd)
                /\ other.dout = ClientPayload
                /\ other.cfd = "closed" /\ other.dfd = "closed")

\* the first connection has ended on an error while the second one is in its
\* relay with the payload forwarded
ErrorIsolationWitness ==
    /\ pc = "done" /\ result \in ErrorResults
    /\ other.pc = "relay" /\ other.cout = <<5, 0>> \o SuccessReply(draft, other.bnd)
    /\ other.dout = ClientPayload

\* C13: whenever the task has ended, by a relay close, a protocol error, an
\* I/O error or a panic, its client socket is closed and its destination
\* socket, if connect opened one, is closed too; while the task runs it holds
\* its client socket, and a destination socket only from a successful connect on.
SocketRelease ==
    /\ pc = "done" => /\ cfd = "closed"
                      /\ dfd = (IF bnd # NoAddr THEN "closed" ELSE "none")
    /\ pc # "done" => /\ cfd = "open"
                      /\ dfd = (IF pc \in {"success_reply"} \cup RelayStages
                                THEN "open" ELSE "none")

\* the task has ended after a successful connect, on an error or a panic
SocketReleaseWitness ==
    /\ pc = "done" /\ result \in ErrorResults
    /\ bnd # NoAddr /\ cfd = "closed" /\ dfd = "closed"

\* C14: when a whole request with address type 0x01 (4 address bytes) or 0x04
\* (16 address bytes) and port bytes [hi, lo] has been read, the target about
\* to be passed to connect has exactly those address bytes in order and the
\* port 256 * hi + lo, within 0..65535; the bytes [192,168,1,1], [0x1F,0x90]
\* give 192.168.1.1:8080.
AddressDecoding ==
    (pc = "connect" /\ Len(Request) = RequestLen(Request) /\ Request[4] \in {1, 4})
    => LET n == IF Request[4] = ADDRESS_TYPE_IPV4 THEN 4 ELSE 16
       IN  /\ addr.host = [atyp |-> Request[4], octets |-> SubSeq(Request, 5, 4 + n)]
           /\ addr.port = 256 * Request[5 + n] + Request[6 + n]
           /\ addr.port \in 0..65535
           /\ SubSeq(Request, 5, 6 + n) = <<192, 168, 1, 1, 31, 144>>
                 => addr = [host |-> V4(<<192, 168, 1, 1>>), port |-> 8080]

\* a whole IPv4 request for 192.168.1.1:8080 has been read
AddressDecodingWitness ==
    /\ pc = "connect" /\ Len(Request) = 10
    /\ SubSeq(Request, 4, 10) = <<1, 192, 168, 1, 1, 31, 144>>
    /\ addr = [host |-> V4(<<192, 168, 1, 1>>), port |-> 8080]

\* C15: a forwarding write that waits for its stream to take data holds up its
\* own direction only: while a chunk for the destination is pending because
\* the destination does not take it, data the destination has sent can be
\* read by the relay, and likewise with the two sides exchanged.
DirectionIndependence ==
    /\ (pc = "to_dest" /\ ~daccept /\ dpeer = "open" /\ dread < MaxPayload)
          => ENABLED RelayDestData
    /\ (pc = "to_client" /\ ~caccept /\ cpeer = "open" /\ cread < MaxPayload)
          => ENABLED RelayClientData

\* C16: in the relay, an I/O error of a read or of a write, on the client or
\* on the destination stream, ends the relay loop the ordinary way, the task
\* returning Ok with both sockets closed, whichever side failed; a read that
\* would block forwards nothing and leaves the task's state as it was,
\* waiting in the relay.
RelayIoOutcomes ==
    /\ []((pc = "done" /\ at \in RelayStages)
             => result = "Ok" /\ cfd = "closed" /\ dfd = "closed")
    /\ [][(pc = "relay" /\ pc' = "relay") => UNCHANGED taskVars]_vars

\* C17: a task that ends while writing the greeting reply, the refusal reply
\* or the success reply ends with ConnectionFailed, never with a panic or
\* another result, having written nothing but a part of the replies it owed
\* and having relayed nothing.
ReplyWriteFailure ==
    (pc = "done" /\ at \in {"greeting_reply", "refuse_reply", "success_reply"})
    => /\ result = "ConnectionFailed"
       /\ IsPrefix(cout, <<5, 0>> \o (IF at = "refuse_reply" THEN RefusalReply
                                      ELSE SuccessReply(draft, bnd)))
       /\ dout = <<>> /\ cread = 0 /\ dread = 0

\* C18: for address type 0x03 the parser reads one length byte L and then
\* exactly L name bytes before it resolves, and goes on with the first
\* address the resolver gave; when the resolver fails or gives no address the
\* task ends with ConnectionFailed, with no reply written after [5,0] and no
\* connect attempted.
DomainResolution ==
    /\ (pc = "resolve" /\ ~short)
          => /\ Request[4] = ADDRESS_TYPE_DOMAIN_NAME
             /\ Len(Request) = 5 + Request[5]
             /\ buf = SubSeq(Request, 6, 5 + Request[5])
    /\ (pc = "port" /\ Request[4] = ADDRESS_TYPE_DOMAIN_NAME)
          => \E r \in ResolveResults : r.ok /\ r.addrs # <<>> /\ addr.host = Head(r.addrs)
    /\ (pc = "done" /\ at = "resolve")
          => result = "ConnectionFailed" /\ cout = <<5, 0>> /\ connects = 0 /\ dfd = "none"

\* payload bytes the relay has read and not yet written to the other stream
Held == (cread - Len(dout)) + (dread - Len(ToClient))

\* C19: in the relay the task holds at most one chunk, of at most 4096
\* bytes, read from one stream only: what it holds is the unwritten rest of
\* the buffer write_all is working on; it reads from neither stream while it
\* holds anything; and when the loop ends at a read, by a zero-byte read or a
\* read error, it holds nothing.
OneChunkInFlight ==
    /\ [](Stage \in RelayStages
             => /\ Held = Len(data) - woffset
                /\ Len(data) <= BUFFER_SIZE
                /\ cread = Len(dout) \/ dread = Len(ToClient)
                /\ pc = "relay" => Held = 0
                /\ pc \in {"to_dest", "to_client"} => Held > 0)
    /\ []((pc = "done" /\ at = "relay") => Held = 0)
    /\ [][Held > 0 => cread' = cread /\ dread' = dread]_vars

\* a chunk of two bytes read from the destination is half written to the
\* client, while the client has payload waiting to be read
OneChunkInFlightWitness ==
    /\ pc = "to_client" /\ Len(data) = 2 /\ woffset = 1 /\ Held = 1
    /\ cpeer = "open" /\ cread < MaxPayload

\* the error of the first failing check of a header, "none" when it passes all
FirstFailing(ver, cmd, atyp) ==
    IF ver # 5 THEN "InvalidVersion"
    ELSE IF cmd # 1 THEN "UnsupportedCommand"
    ELSE IF atyp \notin {1, 3, 4} THEN "InvalidAddressType"
    ELSE "none"

\* C20: the outcome of a 4-byte request header is that of the first failing
\* check in the order version, command, address type (bad version with bad
\* command gives InvalidVersion; good version with bad command and bad
\* address type gives UnsupportedCommand); it depends on those three bytes
\* only, not on the reserved byte; and on a rejection exactly the 4 header
\* bytes of the request have been read.
RequestHeaderPriority ==
    (InParse /\ Len(Request) >= 4)
        => LET e == FirstFailing(Request[1], Request[2], Request[4])
               rejected == pc = "done" /\ at = "request"
           IN  /\ e # "none" => rejected /\ result = e /\ Len(Request) = 4
               /\ e = "none" => ~rejected
               /\ (Request[1] # 5 /\ Request[2] # 1) => result = "InvalidVersion"
               /\ (Request[1] = 5 /\ Request[2] # 1 /\ Request[4] \notin {1, 3, 4})
                     => result = "UnsupportedCommand"

\* a header with a good version, a bad command, a non-zero reserved byte and
\* a bad address type was rejected for its command
RequestHeaderPriorityWitness ==
    /\ pc = "done" /\ at = "request" /\ Request = <<5, 2, 1, 2>>
    /\ result = "UnsupportedCommand"

====
